---- MODULE Spec2Model ----
(***************************************************************************)
(* Repeated stratified cross-validation of a DeepHit competing-risks       *)
(* model (src/DeppHit.ipynb): the fold loop, the per-fold grid search,     *)
(* the per-fold metrics and the confidence-interval aggregation.           *)
(*                                                                         *)
(* Arrays are functions over 0..n-1 (numpy positions); Python lists are    *)
(* sequences.  Every row of the feature matrix carries the index of its    *)
(* subject (field id), which the program does not store: it records which  *)
(* subject a copied row came from.                                         *)
(***************************************************************************)
EXTENDS Integers, Sequences, FiniteSets, TLC

\* ------------------------------------------------------------------ bounds
NumSubjects == 12      \* rows of the dataset
MaxShift == 1          \* the shuffles a random generator may yield: 0..MaxShift
MaxScore == 2          \* a defined validation concordance is one of 1..MaxScore
MaxLen == 3            \* longest metric sequence handed to the aggregator alone
n_splits == 2          \* folds per repeat (the script runs 5)
n_repeats == 2         \* repeats (the script runs 5)

\* ------------------------------------------------------- program constants
num_durations == 115   \* number of cut points of the discretization grid
MaxFollowUp == 114     \* np.clip(time, 0, 114)
TestSizeDen == 5       \* test_size = 0.2 = 1 / TestSizeDen

\* Python's None, for each kind of value a variable may hold
NoParams == << >>
NoFit == [n |-> 0, sum |-> 0, sumsq |-> 0, prior |-> {}]
NoCuts == [n |-> 0, max |-> 0]
NoModel == [id |-> 0, fold |-> -1, hyper |-> << >>, duration_index |-> NoCuts]
NoLabels == [time |-> << >>, event |-> << >>]
NoCI == [mean |-> "unset", lower |-> "unset", upper |-> "unset"]
NaN == "nan"
Finite == "finite"
NegInf == [kind |-> "-inf", v |-> 0]
UnsetScore == [kind |-> "unset", v |-> 0]
NanScore == [kind |-> "nan", v |-> 0]
Num(v) == [kind |-> "num", v |-> v]
Scores == {Num(v) : v \in 1..MaxScore}

\* ------------------------------------------------------------ numpy arrays
Len0(a) == Cardinality(DOMAIN a)
EmptyArr == << >>
\* arr[idx] with an integer index array: a new array (a copy) of the rows
Take(arr, idx) == [p \in DOMAIN idx |-> arr[idx[p]]]
\* the elements of a set of integers in ascending order
SortedArr(S) ==
    [p \in 0..(Cardinality(S) - 1) |->
        CHOOSE e \in S : Cardinality({x \in S : x < e}) = p]
Range(a) == {a[p] : p \in DOMAIN a}
Clip(v, lo, hi) == IF v < lo THEN lo ELSE IF v > hi THEN hi ELSE v
MaxOf(S) == CHOOSE m \in S : \A x \in S : x <= m

\* ----------------------------------------------------------------- dataset
Subjects == 0..(NumSubjects - 1)
DatasetNames == {"regular", "tied", "rare"}
\* the event column: 0 censored, 1 event of interest, 2 competing event
RawEvent(d, i) ==
    IF d = "rare"
    THEN (IF i = 0 THEN 1 ELSE IF i % 2 = 1 THEN 0 ELSE 2)
    ELSE (IF i % 2 = 0 THEN 1 ELSE IF i % 4 = 1 THEN 0 ELSE 2)
\* the time column: in "tied" every event of interest falls on one time
RawTime(d, i) ==
    IF RawEvent(d, i) = 1
    THEN (IF d = "tied" THEN 5 ELSE i + 1)
    ELSE NumSubjects + i + 1
LoadTime(d) == [i \in Subjects |-> Clip(RawTime(d, i), 0, MaxFollowUp)]
LoadEvent(d) == [i \in Subjects |-> RawEvent(d, i)]
\* a float of a continuous column: the loaded number and, in order, the
\* parameters of every scaling applied to it since
Unscaled(v) == [raw |-> v, by |-> << >>]
\* one one-hot column followed by one continuous column
LoadX(d) ==
    [i \in Subjects |-> [id |-> i, ohe |-> i % 2, cont |-> Unscaled((3 * i) % 5)]]

\* ---------------------------------------------------- hyperparameter grid
Grids ==
    { [lr |-> <<1, 2>>, alpha |-> <<1>>, sigma |-> <<1>>,
       dropout |-> <<1, 2>>, batch_size |-> <<1>>],
      [lr |-> <<1>>, alpha |-> <<2>>, sigma |-> <<1>>,
       dropout |-> <<5>>, batch_size |-> <<8>>],
      [lr |-> <<1, 2>>, alpha |-> <<1>>, sigma |-> <<1>>,
       dropout |-> << >>, batch_size |-> <<1>>] }
\* number of iterations of the five nested loops
GridSize(g) ==
    Len(g.lr) * Len(g.alpha) * Len(g.sigma) * Len(g.dropout) * Len(g.batch_size)
\* the combination of iteration k (0-based) of the nested loops: lr is the
\* outermost loop, batch_size the innermost
Combo(g, k) ==
    LET nb == Len(g.batch_size)
        nd == Len(g.dropout)
        ns == Len(g.sigma)
        na == Len(g.alpha)
    IN  << g.lr[(k \div (na * ns * nd * nb)) + 1],
           g.alpha[((k \div (ns * nd * nb)) % na) + 1],
           g.sigma[((k \div (nd * nb)) % ns) + 1],
           g.dropout[((k \div nb) % nd) + 1],
           g.batch_size[(k % nb) + 1] >>

\* ------------------------------------------------------------------ splits
NumFolds == n_splits * n_repeats
\* y_event1 = (y[1] == 1).astype(int)
YEvent1(ev) == [i \in DOMAIN ev |-> IF ev[i] = 1 THEN 1 ELSE 0]
\* StratifiedKFold with shuffling: the samples sorted by class are dealt to
\* the folds in turn (position q of the sorted order counts for fold
\* q % n_splits), and within a class the members are shuffled; the shuffle
\* is the rotation by shift.
TestFolds(strat, shift) ==
    LET n0 == Cardinality({i \in DOMAIN strat : strat[i] = 0})
        members(c) == {i \in DOMAIN strat : strat[i] = c}
        rank(i) == Cardinality({j \in members(strat[i]) : j < i})
        start(c) == IF c = 0 THEN 0 ELSE n0
        q(i) == start(strat[i]) + ((rank(i) + shift) % Cardinality(members(strat[i])))
    IN  [i \in DOMAIN strat |-> q(i) % n_splits]
\* the (train_idx, test_idx) pair that rskf.split yields for fold number k;
\* rng stands for the stream of the generator seeded with random_state=123
RskfSplit(strat, k, rng) ==
    LET folds == TestFolds(strat, rng + (k \div n_splits))
        test == {i \in DOMAIN strat : folds[i] = k % n_splits}
    IN  [train |-> SortedArr((DOMAIN strat) \ test), test |-> SortedArr(test)]
\* train_test_split(np.arange(n), test_size=0.2, random_state=seed): a
\* shuffle (the rotation by the seed's stream) cut into n_test = ceil(0.2 n)
\* test positions and the rest
TrainTestSplit(n, seed) ==
    LET n_test == (n + TestSizeDen - 1) \div TestSizeDen
        perm == [p \in 0..(n - 1) |-> (p + seed) % n]
    IN  [train |-> [p \in 0..(n - n_test - 1) |-> perm[p + n_test]],
         test |-> [p \in 0..(n_test - 1) |-> perm[p]]]

\* ----------------------------------------------------------- preprocessing
RECURSIVE SumUpTo(_, _)
SumUpTo(a, n) == IF n = 0 THEN 0 ELSE a[n - 1] + SumUpTo(a, n - 1)
SumArr(a) == SumUpTo(a, Len0(a))
ContCol(X) == [p \in DOMAIN X |-> X[p].cont]
\* X[:, cat_dim:] = col : the continuous column is overwritten in place, the
\* one-hot column is not touched
WithCont(X, col) == [p \in DOMAIN X |-> [X[p] EXCEPT !.cont = col[p]]]
\* StandardScaler: the fitted mean and variance, kept as the count, the sum
\* and the sum of squares of the loaded numbers of the fitted column, and the
\* scalings those numbers had been through
ScalerFit(col) ==
    [n |-> Len0(col), sum |-> SumArr([p \in DOMAIN col |-> col[p].raw]),
     sumsq |-> SumArr([p \in DOMAIN col |-> col[p].raw * col[p].raw]),
     prior |-> {col[p].by : p \in DOMAIN col}]
\* (x - mean) / std: one more scaling of the value
ScalerTransform(params, col) ==
    [p \in DOMAIN col |-> [raw |-> col[p].raw, by |-> Append(col[p].by, params)]]
StandardScaler(id, fold) == [id |-> id, fold |-> fold, params |-> NoFit, n_fits |-> 0]

\* LabTransDiscreteTime(num_durations): the equidistant grid
\* linspace(0, max duration, num_durations), kept as its length and its end
LabTransDiscreteTime(id, fold) ==
    [id |-> id, fold |-> fold, cuts |-> NoCuts, n_fits |-> 0]
MakeCuts(durations) == [n |-> num_durations, max |-> MaxOf(Range(durations))]
\* the index of the cut a duration falls on: a duration beyond the grid is
\* moved to its end and censored; an event goes to the next cut at or after
\* it, a censoring to the last cut at or before it
DiscretizeOne(cuts, d, e) ==
    LET over == d > cuts.max
        dd == IF over THEN cuts.max ELSE d
        ev == IF over THEN 0 ELSE (IF e # 0 THEN 1 ELSE 0)
        num == dd * (cuts.n - 1)
        idx == IF cuts.max = 0 THEN 0
               ELSE IF ev = 1 THEN (num + cuts.max - 1) \div cuts.max
               ELSE num \div cuts.max
    IN  [duration |-> idx, event |-> ev]
LabTransform(cuts, yy) ==
    [durations |-> [p \in DOMAIN yy.time |->
                        DiscretizeOne(cuts, yy.time[p], yy.event[p]).duration],
     events |-> [p \in DOMAIN yy.time |->
                        DiscretizeOne(cuts, yy.time[p], yy.event[p]).event]]

\* ---------------------------------------------------------------- metrics
\* EvalSurv(...).concordance_td() divides the concordant pairs by the
\* comparable pairs: it is defined when some pair is comparable
Comparable(t, d, i, j) ==
    \/ t[i] < t[j] /\ d[i]
    \/ t[i] = t[j] /\ (d[i] \/ d[j])
ConcordanceDefined(yy) ==
    LET d == [p \in DOMAIN yy.event |-> yy.event[p] = 1]
    IN  \E i, j \in DOMAIN yy.time : i # j /\ Comparable(yy.time, d, i, j)
\* np.unique(durations[events == 1])
UniqueEventTimes(yy) == {yy.time[p] : p \in {q \in DOMAIN yy.time : yy.event[q] = 1}}

\* the values concordance_td may return for the labels yy: one of the values
\* a defined concordance may take, or NaN from the division by zero pairs.
\* Whether that division yields NaN or raises is the library's arithmetic:
\* both outcomes are modelled (the raise by the actions named ...Raises).
ConcordanceValues(yy, defined_values, nan) ==
    IF ConcordanceDefined(yy) THEN defined_values ELSE {nan}

\* the comparison with >= in place of >
GreaterOrEqual(c, best) ==
    /\ c.kind = "num"
    /\ \/ best.kind = "-inf"
       \/ best.kind = "num" /\ c.v >= best.v

\* c_index_val > best_val_c_index on floats: false when either side is NaN
Greater(c, best) ==
    /\ c.kind = "num"
    /\ \/ best.kind = "-inf"
       \/ best.kind = "num" /\ c.v > best.v

\* compute_confidence_interval(data, confidence=0.95), on the finiteness of
\* the values: np.mean of no value is NaN, stats.sem of fewer than two values
\* is NaN, stats.t.ppf with n-1 = 0 degrees of freedom is NaN, and a NaN
\* propagates through the arithmetic.  Nothing is raised.
compute_confidence_interval(data) ==
    LET n == Len(data)
        anyNaN == \E i \in 1..n : data[i] = NaN
        mean == IF n = 0 \/ anyNaN THEN NaN ELSE Finite
        sem == IF n < 2 \/ anyNaN THEN NaN ELSE Finite
        tppf == IF n - 1 <= 0 THEN NaN ELSE Finite
        h == IF sem = NaN \/ tppf = NaN THEN NaN ELSE Finite
        bound == IF mean = NaN \/ h = NaN THEN NaN ELSE Finite
    IN  [mean |-> mean, lower |-> bound, upper |-> bound]

\* a file name that does not depend on the fold
csv_file_fixed(k) == 1

\* os.path.join(output_dir, f"fold_{fold_num+1}_predictions.csv")
csv_file(k) == k + 1

\* the array src if src[idx] were a view of it: the rows written show in src
SourceAfterWrite_view(src, idx, rows) ==
    [i \in DOMAIN src |->
        IF \E p \in DOMAIN idx : idx[p] = i
        THEN rows[CHOOSE p \in DOMAIN idx : idx[p] = i]
        ELSE src[i]]

\* the array src after rows, a result of src[idx], was assigned to in place:
\* indexing with an index array copies, so src keeps its rows
SourceAfterWrite(src, idx, rows) == src

\* ------------------------------------------------------------------- state
VARIABLES
    dataset, rng,                 \* the loaded sheet; the generators' stream
    X_all, y, param_grid,
    pc, exception, fold_num,
    train_idx, test_idx, X_train_full, X_test, y_train_full, y_test_fold,
    tr_idx, val_idx, X_train, X_val, y_train, y_val,
    scaler, labtrans, lab_train, lab_val,
    best_val_c_index, best_params, best_model, grid_k, model, c_index_val,
    duration_index, files, writes,
    c_index_test, ibs_test, fold_c_indexes, fold_ibss,
    cindex_ci, ibs_ci, printed,
    next_obj, trained, test_sets  \* bookkeeping the program does not hold

inputVars == <<dataset, rng, X_all, y, param_grid>>
outerVars == <<train_idx, test_idx, X_train_full, X_test, y_train_full, y_test_fold>>
innerVars == <<tr_idx, val_idx, X_train, X_val, y_train, y_val>>
prepVars == <<scaler, labtrans, lab_train, lab_val>>
gridVars == <<best_val_c_index, best_params, best_model, grid_k, model,
              c_index_val, trained>>
outVars == <<duration_index, files, writes>>
metricVars == <<c_index_test, ibs_test, fold_c_indexes, fold_ibss>>
aggVars == <<cindex_ci, ibs_ci, printed>>
vars == <<inputVars, pc, exception, fold_num, outerVars, innerVars, prepVars,
          gridVars, outVars, metricVars, aggVars, next_obj, test_sets>>

\* the state before the fold loop, the data loaded and nothing computed yet
Unset ==
    /\ exception = "none"
    /\ fold_num = -1
    /\ train_idx = EmptyArr /\ test_idx = EmptyArr
    /\ X_train_full = EmptyArr /\ X_test = EmptyArr
    /\ y_train_full = NoLabels /\ y_test_fold = NoLabels
    /\ tr_idx = EmptyArr /\ val_idx = EmptyArr
    /\ X_train = EmptyArr /\ X_val = EmptyArr
    /\ y_train = NoLabels /\ y_val = NoLabels
    /\ scaler = StandardScaler(0, -1) /\ labtrans = LabTransDiscreteTime(0, -1)
    /\ lab_train = [durations |-> << >>, events |-> << >>]
    /\ lab_val = [durations |-> << >>, events |-> << >>]
    /\ best_val_c_index = NegInf /\ best_params = NoParams /\ best_model = NoModel
    /\ grid_k = 0 /\ model = NoModel /\ c_index_val = UnsetScore
    /\ duration_index = NoCuts /\ files = << >> /\ writes = << >>
    /\ c_index_test = "unset" /\ ibs_test = "unset"
    /\ cindex_ci = NoCI /\ ibs_ci = NoCI /\ printed = << >>
    /\ next_obj = 1 /\ trained = << >> /\ test_sets = << >>

Init ==
    /\ dataset \in DatasetNames
    /\ rng \in 0..MaxShift
    /\ X_all = LoadX(dataset)
    /\ y = [time |-> LoadTime(dataset), event |-> LoadEvent(dataset)]
    /\ param_grid \in Grids
    /\ pc = "fold"
    /\ fold_c_indexes = << >> /\ fold_ibss = << >>
    /\ Unset

Labels(yy, idx) == [time |-> Take(yy.time, idx), event |-> Take(yy.event, idx)]
Abort(e) == pc' = "aborted" /\ exception' = e
Put(f, k, v) == [n \in (DOMAIN f) \cup {k} |-> IF n = k THEN v ELSE f[n]]

\* ------------------------------------------------------------ the fold loop
\* lines 123-132: the next (train_idx, test_idx) of rskf.split
NextFold ==
    /\ pc = "fold"
    /\ fold_num + 1 < NumFolds
    /\ LET sp == RskfSplit(YEvent1(y.event), fold_num + 1, rng)
       IN  /\ fold_num' = fold_num + 1
           /\ train_idx' = sp.train
           /\ test_idx' = sp.test
           /\ X_train_full' = Take(X_all, sp.train)
           /\ X_test' = Take(X_all, sp.test)
           /\ y_train_full' = Labels(y, sp.train)
           /\ y_test_fold' = Labels(y, sp.test)
           /\ test_sets' = Append(test_sets, Range(sp.test))
    /\ pc' = "split"
    /\ UNCHANGED <<inputVars, exception, innerVars, prepVars, gridVars, outVars,
                   metricVars, aggVars, next_obj>>

\* line 123: rskf.split is exhausted, the loop ends
FoldsExhausted ==
    /\ pc = "fold"
    /\ fold_num + 1 >= NumFolds
    /\ pc' = "aggregate"
    /\ UNCHANGED <<inputVars, exception, fold_num, outerVars, innerVars, prepVars,
                   gridVars, outVars, metricVars, aggVars, next_obj, test_sets>>

\* the validation positions read as rows of the whole matrix
ValRows_direct == Take(X_all, val_idx')

\* X_val = X_train_full[val_idx]
ValRows == Take(X_train_full, val_idx')

\* lines 135-144: the inner train/validation split, seeded with fold_num
InnerSplit ==
    /\ pc = "split"
    /\ LET sp == TrainTestSplit(Len0(X_train_full), fold_num + rng)
       IN  /\ tr_idx' = sp.train
           /\ val_idx' = sp.test
           /\ X_train' = Take(X_train_full, sp.train)
           /\ X_val' = ValRows
           /\ y_train' = Labels(y_train_full, sp.train)
           /\ y_val' = Labels(y_train_full, sp.test)
    /\ pc' = "scale"
    /\ UNCHANGED <<inputVars, exception, fold_num, outerVars, prepVars, gridVars,
                   outVars, metricVars, aggVars, next_obj, test_sets>>

\* fit_transform in place of transform: the scaler re-fit on the rows it scales
ScaleRows_refit(sc, X) ==
    WithCont(X, ScalerTransform(ScalerFit(ContCol(X)), ContCol(X)))

\* X[:, cat_dim:] = scaler.transform(X[:, cat_dim:])
ScaleRows(sc, X) == WithCont(X, ScalerTransform(sc.params, ContCol(X)))

\* lines 147-151: a new scaler, fit on the inner-train continuous columns
Scale ==
    /\ pc = "scale"
    /\ LET fresh == StandardScaler(next_obj, fold_num)
           fitted == [fresh EXCEPT !.params = ScalerFit(ContCol(X_train)),
                                   !.n_fits = fresh.n_fits + 1]
       IN  /\ scaler' = fitted
           /\ X_train' = ScaleRows(fitted, X_train)
           /\ X_val' = ScaleRows(fitted, X_val)
           /\ X_test' = ScaleRows(fitted, X_test)
    /\ X_all' = SourceAfterWrite(X_all, test_idx, X_test')
    /\ next_obj' = next_obj + 1
    /\ pc' = "discretize"
    /\ UNCHANGED <<dataset, rng, y, param_grid, exception, fold_num, train_idx,
                   test_idx, X_train_full, y_train_full, y_test_fold, tr_idx,
                   val_idx, y_train, y_val, labtrans, lab_train, lab_val,
                   gridVars, outVars, metricVars, aggVars, test_sets>>

\* durations_val, events_val = labtrans.transform(*y_val)
TransformVal(lt) == LabTransform(lt.cuts, y_val)

\* lines 154-163: a new grid, fit on the inner-train labels
Discretize ==
    /\ pc = "discretize"
    /\ LET fresh == LabTransDiscreteTime(next_obj, fold_num)
           fitted == [fresh EXCEPT !.cuts = MakeCuts(y_train.time),
                                   !.n_fits = fresh.n_fits + 1]
       IN  /\ labtrans' = fitted
           /\ lab_train' = LabTransform(fitted.cuts, y_train)
           /\ lab_val' = TransformVal(fitted)
    /\ next_obj' = next_obj + 1
    /\ pc' = "grid_init"
    /\ UNCHANGED <<inputVars, exception, fold_num, outerVars, innerVars, scaler,
                   gridVars, outVars, metricVars, aggVars, test_sets>>

\* lines 168-173: the search starts from no model and a score of -inf
GridInit ==
    /\ pc = "grid_init"
    /\ best_val_c_index' = NegInf
    /\ best_params' = NoParams
    /\ best_model' = NoModel
    /\ grid_k' = 0
    /\ trained' = << >>
    /\ pc' = IF GridSize(param_grid) = 0 THEN "report" ELSE "grid"
    /\ UNCHANGED <<inputVars, exception, fold_num, outerVars, innerVars, prepVars,
                   model, c_index_val, outVars, metricVars, aggVars, next_obj,
                   test_sets>>

\* DeepHit(net, ..., duration_index=labtrans.cuts) on a new CauseSpecificNet
NewModel(id, hyper) ==
    [id |-> id, fold |-> fold_num, hyper |-> hyper, duration_index |-> labtrans.cuts]

\* lines 178-221: one iteration of the nested loops: build, fit, score,
\* keep the model when its score is greater than the best so far
TrainCandidate ==
    /\ pc = "grid"
    /\ grid_k < GridSize(param_grid)
    /\ \E c \in ConcordanceValues(y_val, Scores, NanScore) :
          LET hyper == Combo(param_grid, grid_k)
              m == NewModel(next_obj, hyper)
          IN  /\ model' = m
              /\ c_index_val' = c
              /\ IF Greater(c, best_val_c_index)
                    THEN /\ best_val_c_index' = c
                         /\ best_params' = hyper
                         /\ best_model' = m
                    ELSE UNCHANGED <<best_val_c_index, best_params, best_model>>
              /\ trained' = Append(trained, [hyper |-> hyper, id |-> m.id, score |-> c,
                                           duration_index |-> m.duration_index])
    /\ next_obj' = next_obj + 1
    /\ grid_k' = grid_k + 1
    /\ pc' = IF grid_k + 1 = GridSize(param_grid) THEN "report" ELSE "grid"
    /\ UNCHANGED <<inputVars, exception, fold_num, outerVars, innerVars, prepVars,
                   outVars, metricVars, aggVars, test_sets>>

\* line 215: no pair of the validation set is comparable and the division
\* raises
TrainCandidateRaises ==
    /\ pc = "grid"
    /\ grid_k < GridSize(param_grid)
    /\ ~ConcordanceDefined(y_val)
    /\ model' = NewModel(next_obj, Combo(param_grid, grid_k))
    /\ next_obj' = next_obj + 1
    /\ Abort("ZeroDivisionError")
    /\ UNCHANGED <<inputVars, fold_num, outerVars, innerVars, prepVars,
                   best_val_c_index, best_params, best_model, grid_k, c_index_val,
                   trained, outVars, metricVars, aggVars, test_sets>>

\* lines 224-227: the best parameters are printed
ReportBest ==
    /\ pc = "report"
    /\ best_params # NoParams
    /\ pc' = "predict"
    /\ UNCHANGED <<inputVars, exception, fold_num, outerVars, innerVars, prepVars,
                   gridVars, outVars, metricVars, aggVars, next_obj, test_sets>>

\* line 225: best_params[0] on None
ReportBestRaises ==
    /\ pc = "report"
    /\ best_params = NoParams
    /\ Abort("TypeError")
    /\ UNCHANGED <<inputVars, fold_num, outerVars, innerVars, prepVars,
                   gridVars, outVars, metricVars, aggVars, next_obj, test_sets>>

\* lines 230-246: the test-set prediction of the best model, written to the
\* fold's file; the predicted values themselves are not modelled
PredictAndSave ==
    /\ pc = "predict"
    /\ duration_index' = best_model.duration_index
    /\ LET df_out == [time |-> y_test_fold.time, delta |-> y_test_fold.event,
                      columns |-> best_model.duration_index, fold |-> fold_num]
       IN  files' = Put(files, csv_file(fold_num), df_out)
    /\ writes' = Put(writes, csv_file(fold_num),
                     IF csv_file(fold_num) \in DOMAIN writes
                     THEN writes[csv_file(fold_num)] + 1 ELSE 1)
    /\ pc' = "c_index"
    /\ UNCHANGED <<inputVars, exception, fold_num, outerVars, innerVars, prepVars,
                   gridVars, metricVars, aggVars, next_obj, test_sets>>

\* lines 249-258: the test concordance is appended
TestConcordance ==
    /\ pc = "c_index"
    /\ \E c \in ConcordanceValues(y_test_fold, {Finite}, NaN) :
          /\ c_index_test' = c
          /\ fold_c_indexes' = Append(fold_c_indexes, [fold |-> fold_num, value |-> c])
    /\ pc' = "ibs"
    /\ UNCHANGED <<inputVars, exception, fold_num, outerVars, innerVars, prepVars,
                   gridVars, outVars, ibs_test, fold_ibss, aggVars, next_obj,
                   test_sets>>

\* line 256: no pair of the test set is comparable and the division raises
TestConcordanceRaises ==
    /\ pc = "c_index"
    /\ ~ConcordanceDefined(y_test_fold)
    /\ Abort("ZeroDivisionError")
    /\ UNCHANGED <<inputVars, fold_num, outerVars, innerVars, prepVars,
                   gridVars, outVars, metricVars, aggVars, next_obj, test_sets>>

\* np.trapz(brier_scores, time_grid) / (time_grid[-1] - time_grid[0]): with
\* one time the integral and the range are both 0.0, and 0.0 / 0.0 is NaN
IntegratedBrier(time_grid) == IF Cardinality(time_grid) = 1 THEN NaN ELSE Finite

\* lines 264-273: the integrated Brier score over the unique times of the
\* primary event in the test set is appended
IBS ==
    /\ pc = "ibs"
    /\ UniqueEventTimes(y_test_fold) # {}
    /\ ibs_test' = IntegratedBrier(UniqueEventTimes(y_test_fold))
    /\ fold_ibss' = Append(fold_ibss, [fold |-> fold_num, value |-> ibs_test'])
    /\ pc' = "fold"
    /\ UNCHANGED <<inputVars, exception, fold_num, outerVars, innerVars, prepVars,
                   gridVars, outVars, c_index_test, fold_c_indexes, aggVars,
                   next_obj, test_sets>>

\* line 271: time_grid[-1] on an empty time grid
IBSRaises ==
    /\ pc = "ibs"
    /\ UniqueEventTimes(y_test_fold) = {}
    /\ Abort("IndexError")
    /\ UNCHANGED <<inputVars, fold_num, outerVars, innerVars, prepVars,
                   gridVars, outVars, metricVars, aggVars, next_obj, test_sets>>

\* -------------------------------------------------------------- aggregation
Values(seq) == [i \in 1..Len(seq) |-> seq[i].value]

\* lines 299-302
Aggregate ==
    /\ pc = "aggregate"
    /\ cindex_ci' = compute_confidence_interval(Values(fold_c_indexes))
    /\ ibs_ci' = compute_confidence_interval(Values(fold_ibss))
    /\ pc' = "summary"
    /\ UNCHANGED <<inputVars, exception, fold_num, outerVars, innerVars, prepVars,
                   gridVars, outVars, metricVars, printed, next_obj, test_sets>>

\* lines 305-308
Summary ==
    /\ pc = "summary"
    /\ printed' = <<cindex_ci, ibs_ci>>
    /\ pc' = "done"
    /\ UNCHANGED <<inputVars, exception, fold_num, outerVars, innerVars, prepVars,
                   gridVars, outVars, metricVars, cindex_ci, ibs_ci, next_obj,
                   test_sets>>

Next ==
    \/ NextFold \/ FoldsExhausted \/ InnerSplit \/ Scale \/ Discretize
    \/ GridInit \/ TrainCandidate \/ TrainCandidateRaises
    \/ ReportBest \/ ReportBestRaises \/ PredictAndSave
    \/ TestConcordance \/ TestConcordanceRaises \/ IBS \/ IBSRaises
    \/ Aggregate \/ Summary

Spec == Init /\ [][Next]_vars

\* ------------------------------------------------- the aggregator on its own
\* the metric sequences of up to MaxLen folds, each value finite or NaN
MetricSeqs ==
    UNION { [1..n -> {Finite, NaN}] : n \in 0..MaxLen }
Tagged(vals) == [i \in 1..Len(vals) |-> [fold |-> i - 1, value |-> vals[i]]]

InitCI ==
    /\ dataset = "regular"
    /\ rng = 0
    /\ X_all = LoadX(dataset)
    /\ y = [time |-> LoadTime(dataset), event |-> LoadEvent(dataset)]
    /\ param_grid \in Grids
    /\ pc = "aggregate"
    /\ \E a, b \in MetricSeqs :
          /\ fold_c_indexes = Tagged(a)
          /\ fold_ibss = Tagged(b)
    /\ Unset

NextCI == Aggregate \/ Summary

SpecCI == InitCI /\ [][NextCI]_vars

\* ------------------------------------------------------------------ claims
AfterSplit == {"scale", "discretize", "grid_init", "grid", "report", "predict",
               "c_index", "ibs"}
AfterScale == AfterSplit \ {"scale"}
AfterDiscretize == AfterScale \ {"discretize"}
AfterGrid == {"report", "predict", "c_index", "ibs"}
AfterSave == {"c_index", "ibs"}
Ids(X) == {X[p].id : p \in DOMAIN X}
InnerTrainIdx == [p \in DOMAIN tr_idx |-> train_idx[tr_idx[p]]]
InnerValIdx == [p \in DOMAIN val_idx |-> train_idx[val_idx[p]]]
LoadY(d) == [time |-> LoadTime(d), event |-> LoadEvent(d)]

\* the position of a combination in the grid, one index per parameter
IndexIn(list, v) == CHOOSE i \in 1..Len(list) : list[i] = v
GridPos(g, h) ==
    << IndexIn(g.lr, h[1]), IndexIn(g.alpha, h[2]), IndexIn(g.sigma, h[3]),
       IndexIn(g.dropout, h[4]), IndexIn(g.batch_size, h[5]) >>
\* a comes before b in the nesting lr, alpha, sigma, dropout, batch_size
LexLess(a, b) ==
    \E k \in 1..5 : a[k] < b[k] /\ \A j \in 1..(k - 1) : a[j] = b[j]
FullProduct(g) ==
    {<<a, b, c, d, e>> : a \in Range(g.lr), b \in Range(g.alpha),
        c \in Range(g.sigma), d \in Range(g.dropout), e \in Range(g.batch_size)}

\* C1: when a fold's grid search ends, exactly one new predictor was trained
\* for each combination of the full Cartesian product of the grid, in the
\* order of the nesting lr, alpha, sigma, dropout, batch_size; the retained
\* model is a combination of highest validation concordance, and among
\* combinations of equal highest score it is the first in that order.
C1_GridSearchKeepsFirstBest ==
    pc \in AfterGrid =>
      LET n == Len(trained)
          scored == {i \in 1..n : trained[i].score.kind = "num"}
      IN  /\ n = Cardinality(FullProduct(param_grid))
          /\ {trained[i].hyper : i \in 1..n} = FullProduct(param_grid)
          /\ \A i, j \in 1..n :
                i < j => /\ trained[i].id # trained[j].id
                         /\ LexLess(GridPos(param_grid, trained[i].hyper),
                                    GridPos(param_grid, trained[j].hyper))
          /\ \A i \in 1..n : trained[i].id > labtrans.id
          /\ scored # {} =>
                \E b \in scored :
                   /\ best_model.id = trained[b].id
                   /\ best_model.hyper = trained[b].hyper
                   /\ best_params = trained[b].hyper
                   /\ best_val_c_index = trained[b].score
                   /\ \A j \in scored :
                        /\ trained[j].score.v <= trained[b].score.v
                        /\ (j # b /\ trained[j].score.v = trained[b].score.v) =>
                              LexLess(GridPos(param_grid, trained[b].hyper),
                                      GridPos(param_grid, trained[j].hyper))

\* a 2x2 grid searched to its end with two combinations tied at the top
C1_Witness ==
    /\ pc = "report"
    /\ Len(trained) = 4
    /\ \E i, j \in 1..Len(trained) :
          /\ i < j
          /\ trained[i].score.kind = "num"
          /\ trained[i].score = trained[j].score
          /\ trained[i].score = best_val_c_index
          /\ best_params = trained[i].hyper

\* C2: the calibration-error sequence never holds a NaN and the calibration
\* step never raises: a fold whose test set has fewer than 2 unique times of
\* the primary event appends nothing to it, and the run goes on.
C2_DegenerateFoldIsSkipped ==
    /\ \A i \in 1..Len(fold_ibss) : fold_ibss[i].value # NaN
    /\ exception # "IndexError"

\* C3: handed fewer than 2 values, the aggregator returns no
\* (mean, lower, upper) triple.
C3_SmallSampleGivesNoTriple ==
    pc \in {"summary", "done"} =>
      /\ Len(fold_c_indexes) < 2 => cindex_ci = NoCI
      /\ Len(fold_ibss) < 2 => ibs_ci = NoCI

\* C4: with an empty hyperparameter grid no fold executes: nothing is split,
\* scaled, discretized, trained, written or appended.
C4_EmptyGridRunsNoFold ==
    GridSize(param_grid) = 0 =>
      /\ fold_num = -1
      /\ Len0(train_idx) = 0 /\ Len0(tr_idx) = 0
      /\ scaler.n_fits = 0 /\ labtrans.n_fits = 0
      /\ trained = << >> /\ files = << >>
      /\ fold_c_indexes = << >> /\ fold_ibss = << >>

\* C5: a fold whose test concordance or calibration integration is undefined
\* does not end the run.
C5_FoldFailureDoesNotAbort ==
    (exception \in {"ZeroDivisionError", "IndexError"}
        /\ csv_file(fold_num) \in DOMAIN files)
      => pc # "aborted"

\* C6: in every fold the subjects of the inner-train, inner-validation and
\* outer-test rows are pairwise disjoint and together are the whole dataset;
\* within a repeat the test sets are pairwise disjoint, and the test sets of
\* a finished repeat cover every subject.
C6_SplitsPartitionTheDataset ==
    /\ pc \in AfterSplit =>
          LET TR == Ids(X_train)
              VA == Ids(X_val)
              TE == Ids(X_test)
          IN  /\ TR = Range(InnerTrainIdx) /\ VA = Range(InnerValIdx)
              /\ TE = Range(test_idx)
              /\ Cardinality(TR) = Len0(X_train)
              /\ Cardinality(VA) = Len0(X_val)
              /\ Cardinality(TE) = Len0(X_test)
              /\ TR \cap VA = {} /\ TR \cap TE = {} /\ VA \cap TE = {}
              /\ TR \cup VA \cup TE = Subjects
    /\ \A a, b \in 1..Len(test_sets) :
          (a < b /\ (a - 1) \div n_splits = (b - 1) \div n_splits)
             => test_sets[a] \cap test_sets[b] = {}
    /\ \A r \in 0..(n_repeats - 1) :
          Len(test_sets) >= (r + 1) * n_splits =>
             UNION {test_sets[k] : k \in (r * n_splits + 1)..((r + 1) * n_splits)}
                = Subjects

\* the last fold of the last repeat has made its inner split
C6_Witness ==
    /\ pc = "scale"
    /\ fold_num = NumFolds - 1
    /\ Len(test_sets) = NumFolds
    /\ X_train # EmptyArr /\ X_val # EmptyArr /\ X_test # EmptyArr

\* C7: a run that completes has appended one concordance and one calibration
\* error per fold, in fold order, and has written one table per fold under
\* the fold's own name; no table is ever written twice, each holds what its
\* fold wrote, and the aggregator runs only after the last fold.
C7_OneRecordAndOneTablePerFold ==
    /\ \A name \in DOMAIN writes : writes[name] = 1
    /\ \A name \in DOMAIN files :
          \E k \in 0..fold_num :
             /\ name = csv_file(k)
             /\ files[name].fold = k
             /\ Range(files[name].time) = {y.time[i] : i \in test_sets[k + 1]}
    /\ (cindex_ci # NoCI \/ ibs_ci # NoCI) =>
          /\ fold_num = NumFolds - 1
          /\ Len(fold_ibss) = NumFolds
    /\ pc = "done" =>
          /\ Len(fold_c_indexes) = NumFolds
          /\ Len(fold_ibss) = NumFolds
          /\ \A i \in 1..NumFolds :
                fold_c_indexes[i].fold = i - 1 /\ fold_ibss[i].fold = i - 1
          /\ DOMAIN files = {csv_file(k) : k \in 0..(NumFolds - 1)}
          /\ Cardinality(DOMAIN files) = NumFolds

C7_Witness ==
    /\ pc = "done"
    /\ Len(fold_c_indexes) = NumFolds
    /\ Cardinality(DOMAIN files) = NumFolds
    /\ cindex_ci # NoCI

\* C8: the feature matrix and the labels are the loaded ones in every state;
\* the rows a fold scales were scaled once, by that fold's scaler, which was
\* fit on values never scaled before; and the scaler,
\* the grid and the predictors a fold uses were created in that fold.
C8_FoldsShareNoMutableState ==
    /\ X_all = LoadX(dataset)
    /\ y = LoadY(dataset)
    /\ pc \in AfterScale =>
          /\ scaler.fold = fold_num
          /\ scaler.params.prior = {<< >>}
          /\ \A p \in DOMAIN X_test : X_test[p].cont.by = <<scaler.params>>
          /\ \A p \in DOMAIN X_val : X_val[p].cont.by = <<scaler.params>>
          /\ \A p \in DOMAIN X_train : X_train[p].cont.by = <<scaler.params>>
    /\ pc \in AfterDiscretize =>
          /\ labtrans.fold = fold_num
          /\ labtrans.id > scaler.id
    /\ (pc \in AfterGrid \/ pc = "grid") =>
          /\ \A i \in 1..Len(trained) : trained[i].id > labtrans.id
          /\ Len(trained) > 0 => model.fold = fold_num
          /\ best_model # NoModel => best_model.fold = fold_num

\* a later fold has scaled its rows and searched its grid
C8_Witness ==
    /\ pc = "predict"
    /\ fold_num >= 1
    /\ scaler.fold = fold_num /\ scaler.n_fits = 1
    /\ best_model.fold = fold_num

\* C9: the fold's scaler is fit once, on the inner-train continuous column,
\* and inner-train, inner-validation and outer-test rows are scaled with
\* those parameters, their one-hot column unchanged; the fold's grid is fit
\* once, on the inner-train labels, the inner-train and inner-validation
\* labels are discretized with it, it is the duration index of every
\* candidate and of the written table, and the test labels stay as loaded.
C9_TransformsAreFitOnInnerTrainOnly ==
    LET raw == LoadX(dataset)
        fit == ScalerFit([p \in DOMAIN tr_idx |-> raw[InnerTrainIdx[p]].cont])
        scaled(i) == [id |-> i, ohe |-> raw[i].ohe,
                      cont |-> [raw |-> raw[i].cont.raw, by |-> <<fit>>]]
        cuts == [n |-> num_durations,
                 max |-> MaxOf({LoadTime(dataset)[i] : i \in Range(InnerTrainIdx)})]
    IN  /\ pc \in AfterScale =>
              /\ scaler.n_fits = 1
              /\ scaler.params = fit
              /\ \A p \in DOMAIN X_train : X_train[p] = scaled(InnerTrainIdx[p])
              /\ \A p \in DOMAIN X_val : X_val[p] = scaled(InnerValIdx[p])
              /\ \A p \in DOMAIN X_test : X_test[p] = scaled(test_idx[p])
        /\ pc \in AfterDiscretize =>
              /\ labtrans.n_fits = 1
              /\ labtrans.cuts = cuts
              /\ lab_train = LabTransform(cuts, Labels(LoadY(dataset), InnerTrainIdx))
              /\ lab_val = LabTransform(cuts, Labels(LoadY(dataset), InnerValIdx))
              /\ y_test_fold = Labels(LoadY(dataset), test_idx)
        /\ (pc = "grid" \/ pc \in AfterGrid) =>
              /\ \A i \in 1..Len(trained) : trained[i].duration_index = cuts
              /\ best_model # NoModel => best_model.duration_index = cuts
        /\ pc \in AfterSave =>
              /\ duration_index = cuts
              /\ files[csv_file(fold_num)].columns = cuts
              /\ files[csv_file(fold_num)].time = Take(LoadTime(dataset), test_idx)
              /\ files[csv_file(fold_num)].delta = Take(LoadEvent(dataset), test_idx)

\* a later fold has written its table after a search over several candidates
C9_Witness ==
    /\ pc = "c_index"
    /\ fold_num >= 1
    /\ Len(trained) > 1
    /\ scaler.n_fits = 1 /\ labtrans.n_fits = 1
    /\ Len0(X_val) > 0 /\ Len0(lab_val.durations) > 0

\* C10: with a non-empty grid, every grid search ends with a retained model,
\* a retained parameter tuple and a score above -inf.
C10_NonEmptyGridRetainsAModel ==
    (pc \in AfterGrid /\ GridSize(param_grid) > 0) =>
      /\ best_model # NoModel
      /\ best_params # NoParams
      /\ best_val_c_index.kind = "num"
====
